---- MODULE Spec2Model ----
(***************************************************************************)
(* KV-cache quantization parameter calibration (lmdeploy/lite/apis/        *)
(* kv_qparams.py): the calibration run `main`, the statistics collection   *)
(* routine `stats_past_key_values`, the reducers and the finalizer.        *)
(*                                                                         *)
(* A tensor of shape [Bs, Heads, Tokens, Dims] is modelled with            *)
(* Bs = Tokens = Dims = 1: a sequence of integers, one element per head.   *)
(* Scales are exact fractions [num, den]; the narrowing to float32 done by *)
(* np.array(..., dtype=np.float32) is not part of the modelled value.      *)
(***************************************************************************)
EXTENDS Integers, Sequences, FiniteSets, TLC

\* ---------------------------------------------------------------- bounds
MaxBatches == 2
MaxLayers == 2
MaxHeads == 3
MaxTP == 2
MaxRequests == 4
MaxPromptLen == 2
MaxGenTokens == 1

\* the value patterns the modelled forward pass draws key/value caches from
Patterns == { <<0, 0>>, <<-2, 4>>, <<-5, 3>> }

BitsChoices == {4, 8}
GranularityChoices == {"per_tensor", "per_channel"}
DatasetChoices == {"c4", "lambada"}
ModelTypes == {"LlamaForCausalLM", "LlamaModel"}

\* ------------------------------------------------------- python helpers
Abs(x) == IF x < 0 THEN -x ELSE x

Pow2(n) == 2 ^ n

Range(s) == { s[j] : j \in 1..Len(s) }

\* python's built-in max over a non-empty list: keeps the first maximal item
RECURSIVE PyMaxFrom(_, _, _)
PyMaxFrom(s, j, best) ==
    IF j > Len(s) THEN best
    ELSE PyMaxFrom(s, j + 1, IF s[j] > best THEN s[j] ELSE best)

PyMax(s) == PyMaxFrom(s, 2, s[1])

RECURSIVE PyMinFrom(_, _, _)
PyMinFrom(s, j, best) ==
    IF j > Len(s) THEN best
    ELSE PyMinFrom(s, j + 1, IF s[j] < best THEN s[j] ELSE best)

PyMin(s) == PyMinFrom(s, 2, s[1])

\* ------------------------------------------------------------- reducers
absmax(tensor) == PyMax([j \in 1..Len(tensor) |-> Abs(tensor[j])])

minmax(tensor) == << PyMin(tensor), PyMax(tensor) >>

Reduce(fn, tensor) == IF fn = "absmax" THEN absmax(tensor) ELSE minmax(tensor)

\* ------------------------------------------------------------- Observer
NewObserver(fn) == [fn |-> fn, enabled |-> FALSE, buffer |-> << >>]

enable_observer(obs) == [obs EXCEPT !.enabled = TRUE]

Observe(obs, tensor) ==
    IF obs.enabled
    THEN [obs EXCEPT !.buffer = Append(@, Reduce(obs.fn, tensor))]
    ELSE obs

\* ------------------------------------------------ stats_past_key_values
NumHeads(cache) == Len(cache)

PerTpHeads(heads, tp_count) == heads \div tp_count

\* mutant: the shard offset is dropped from the pool index
ObsIndexNoShard(layer, tp, tp_count) == layer * tp_count

\* mutant: layer and shard are swapped in the pool index
ObsIndexSwapped(layer, tp, tp_count) == tp * tp_count + layer

ObsIndex(layer, tp, tp_count) == layer * tp_count + tp

\* mutant: the upper end of the head range is taken inclusive
ShardHeadsInclusive(tp, per_tp_heads, heads) ==
    { h \in 0..(heads - 1) : tp * per_tp_heads <= h /\ h <= (tp + 1) * per_tp_heads }

\* the head indices (0-based) that cache[:, tp*per_tp_heads:(tp+1)*per_tp_heads]
\* selects on an axis of `heads` entries (python clamps the slice to the axis)
ShardHeads(tp, per_tp_heads, heads) ==
    { h \in 0..(heads - 1) : tp * per_tp_heads <= h /\ h < (tp + 1) * per_tp_heads }

ShardSlice(cache, tp, per_tp_heads) ==
    LET sel == ShardHeads(tp, per_tp_heads, NumHeads(cache))
    IN  [j \in 1..Cardinality(sel) |-> cache[tp * per_tp_heads + j]]

PoolEmpty(k_list, v_list) == Len(k_list) = 0 /\ Len(v_list) = 0

\* mutant: one observer per layer, the shards are forgotten
CreatePoolPerLayer(num_layers, sym, tp_count) ==
    [n \in 1..num_layers |->
        enable_observer(NewObserver(IF sym THEN "absmax" ELSE "minmax"))]

\* mutant: the observers are never enabled
CreatePoolDisabled(num_layers, sym, tp_count) ==
    [n \in 1..(num_layers * tp_count) |->
        NewObserver(IF sym THEN "absmax" ELSE "minmax")]

CreatePool(num_layers, sym, tp_count) ==
    [n \in 1..(num_layers * tp_count) |->
        enable_observer(NewObserver(IF sym THEN "absmax" ELSE "minmax"))]

\* mutant: the pool only has to be large enough for the batch
PoolSizeAtLeast(obs_list, past_key_values, tp_count) ==
    Len(obs_list) >= Len(past_key_values) * tp_count

PoolSizeOK(obs_list, past_key_values, tp_count) ==
    Len(obs_list) = Len(past_key_values) * tp_count

\* the nested loops over (layer, tp), flattened to n = layer * num_tp + tp in
\* iteration order; stops at the first reducer failure, keeping what was
\* already appended
RECURSIVE ObserveFrom(_, _, _, _, _)
ObserveFrom(n, past_key_values, k_list, v_list, tp_count) ==
    IF n >= Len(past_key_values) * tp_count
    THEN [k |-> k_list, v |-> v_list, err |-> "none"]
    ELSE LET layer == n \div tp_count
             tp == n % tp_count
             k_cache == past_key_values[layer + 1][1]
             v_cache == past_key_values[layer + 1][2]
             idx == ObsIndex(layer, tp, tp_count)
             per_tp_heads == PerTpHeads(NumHeads(k_cache), tp_count)
             k_slice == ShardSlice(k_cache, tp, per_tp_heads)
             v_slice == ShardSlice(v_cache, tp, per_tp_heads)
         IN  IF idx + 1 > Len(k_list)
             THEN [k |-> k_list, v |-> v_list, err |-> "IndexError"]
             ELSE IF k_list[idx + 1].enabled /\ Len(k_slice) = 0
             THEN [k |-> k_list, v |-> v_list, err |-> "RuntimeError"]
             ELSE LET k2 == [k_list EXCEPT ![idx + 1] = Observe(@, k_slice)]
                  IN  IF v_list[idx + 1].enabled /\ Len(v_slice) = 0
                      THEN [k |-> k2, v |-> v_list, err |-> "RuntimeError"]
                      ELSE ObserveFrom(n + 1, past_key_values, k2,
                               [v_list EXCEPT ![idx + 1] = Observe(@, v_slice)],
                               tp_count)

\* mutant: the pool is rebuilt on every call instead of only when it is empty
stats_rebuilding_pool(past_key_values, k_list, v_list, sym, tp_count) ==
    LET k1 == CreatePool(Len(past_key_values), sym, tp_count)
        v1 == CreatePool(Len(past_key_values), sym, tp_count)
    IN  IF ~PoolSizeOK(k1, past_key_values, tp_count)
           \/ ~PoolSizeOK(v1, past_key_values, tp_count)
        THEN [k |-> k1, v |-> v1, err |-> "AssertionError"]
        ELSE ObserveFrom(0, past_key_values, k1, v1, tp_count)

stats_past_key_values(past_key_values, k_list, v_list, sym, tp_count) ==
    LET fresh == PoolEmpty(k_list, v_list)
        k1 == IF fresh THEN CreatePool(Len(past_key_values), sym, tp_count)
                       ELSE k_list
        v1 == IF fresh THEN CreatePool(Len(past_key_values), sym, tp_count)
                       ELSE v_list
    IN  IF ~PoolSizeOK(k1, past_key_values, tp_count)
           \/ ~PoolSizeOK(v1, past_key_values, tp_count)
        THEN [k |-> k1, v |-> v1, err |-> "AssertionError"]
        ELSE ObserveFrom(0, past_key_values, k1, v1, tp_count)

\* ------------------------------------------------------------------ main
VARIABLES
    bits, granularity, calib_dataset, symmetry, offload, num_tp,  \* arguments
    pc,             \* position in main
    failure,        \* the exception that ended the run, "none" otherwise
    model_type,     \* type(model) once loaded, "unloaded" before
    num_heads,      \* attention heads of the loaded model, 0 before
    calib_loader,   \* the key/value caches the forward pass yields, per batch
    batch_idx,      \* batches taken from calib_loader so far
    k_obs_list, v_obs_list,
    out_dir_created,
    files,          \* path |-> content of every artifact written
    i               \* index of the finalization loop

\* turbomind/chat.py, main
VARIABLES
    chat_pc,        \* "Idle" while the chat is not running, "Prompt", "Exited"
    nth_round, step, seed,
    requests        \* the stream_infer calls made so far, in order

calib_vars == << bits, granularity, calib_dataset, symmetry, offload, num_tp,
                 pc, failure, model_type, num_heads, calib_loader, batch_idx,
                 k_obs_list, v_obs_list, out_dir_created, files, i >>

chat_vars == << chat_pc, nth_round, step, seed, requests >>

vars == << calib_vars, chat_vars >>

\* the chat CLI is not running
ChatIdle ==
    /\ chat_pc = "Idle"
    /\ nth_round = 0
    /\ step = 0
    /\ seed = 0
    /\ requests = << >>

args == << bits, granularity, calib_dataset, symmetry, offload, num_tp >>

\* one layer's cache of `heads` heads, and a batch of `layers` layers; the
\* values differ between layers, between heads and between key and value
KCache(p, layer, heads) ==
    [h \in 1..heads |->
        IF (h + layer) % 2 = 0 THEN p[1] ELSE p[2] + (layer - 1)]

VCache(p, layer, heads) ==
    [h \in 1..heads |->
        IF (h + layer) % 2 = 0 THEN p[2] ELSE -p[1] - (layer - 1)]

PastKeyValues(layers, heads, p) ==
    [l \in 1..layers |-> << KCache(p, l, heads), VCache(p, l, heads) >>]

\* what the forward pass of a model with `heads` heads can return
Batches(heads) ==
    { PastKeyValues(l, heads, p) : l \in 1..MaxLayers, p \in Patterns }

Loaders(heads) == UNION { [1..n -> Batches(heads)] : n \in 0..MaxBatches }

OFFLOAD_MOD_MAP == {"LlamaForCausalLM"}

ValidGranularity(g) == g \in {"per_tensor"}

\* mutant: 4-bit is let through
ValidBitsFourOrEight(b) == b \in {4, 8}

ValidBits(b) == b = 8

ValidDataset(d) == d \in {"c4", "ptb", "wikitext2", "pileval"}

Init ==
    /\ bits \in BitsChoices
    /\ granularity \in GranularityChoices
    /\ calib_dataset \in DatasetChoices
    /\ symmetry \in BOOLEAN
    /\ offload \in BOOLEAN
    /\ num_tp \in 1..MaxTP
    /\ pc = "Validate"
    /\ failure = "none"
    /\ model_type = "unloaded"
    /\ num_heads = 0
    /\ calib_loader = << >>
    /\ batch_idx = 0
    /\ k_obs_list = << >>
    /\ v_obs_list = << >>
    /\ out_dir_created = FALSE
    /\ files = {}
    /\ i = 0
    /\ ChatIdle

\* the three assertions that open main
Validate ==
    /\ pc = "Validate"
    /\ IF ValidGranularity(granularity) /\ ValidBits(bits)
          /\ ValidDataset(calib_dataset)
       THEN pc' = "Load" /\ failure' = failure
       ELSE pc' = "Failed" /\ failure' = "AssertionError"
    /\ UNCHANGED << args, model_type, num_heads, calib_loader, batch_idx, k_obs_list,
                    v_obs_list, out_dir_created, files, i >>
    /\ UNCHANGED chat_vars

\* tokenizer, model and calibration loader; the two empty observer lists
Load ==
    /\ pc = "Load"
    /\ \E mt \in ModelTypes : model_type' = mt
    /\ \E h \in 1..MaxHeads :
          /\ num_heads' = h
          /\ \E ld \in Loaders(h) : calib_loader' = ld
    /\ k_obs_list' = << >>
    /\ v_obs_list' = << >>
    /\ pc' = IF offload THEN "Offload" ELSE "Loop"
    /\ UNCHANGED << args, failure, batch_idx, out_dir_created, files, i >>
    /\ UNCHANGED chat_vars

\* if offload: ... with memory_efficient_inference(model, offload_mod)
\* offload_mod is assigned only inside the `not in OFFLOAD_MOD_MAP` branch,
\* by a lookup of the key that was just found missing
OffloadSetup ==
    /\ pc = "Offload"
    /\ pc' = "Failed"
    /\ failure' = IF model_type \notin OFFLOAD_MOD_MAP
                  THEN "KeyError" ELSE "UnboundLocalError"
    /\ UNCHANGED << args, model_type, num_heads, calib_loader, batch_idx, k_obs_list,
                    v_obs_list, out_dir_created, files, i >>
    /\ UNCHANGED chat_vars

\* mutant: the loop stops one batch early
LoaderExhaustedEarly(idx, loader) == idx >= Len(loader) - 1

LoaderExhausted(idx, loader) == idx >= Len(loader)

\* one iteration of `for data in calib_loader`: forward pass, then
\* stats_past_key_values on its past_key_values
CalibrateBatch ==
    /\ pc = "Loop"
    /\ ~LoaderExhausted(batch_idx, calib_loader)
    /\ LET kv_cache == calib_loader[batch_idx + 1]
           r == stats_past_key_values(kv_cache, k_obs_list, v_obs_list,
                                      symmetry, num_tp)
       IN  /\ k_obs_list' = r.k
           /\ v_obs_list' = r.v
           /\ failure' = r.err
           /\ pc' = IF r.err = "none" THEN "Loop" ELSE "Failed"
    /\ batch_idx' = batch_idx + 1
    /\ UNCHANGED << args, model_type, num_heads, calib_loader, out_dir_created, files, i >>
    /\ UNCHANGED chat_vars

\* the loader is exhausted: out_dir.mkdir(parents=True, exist_ok=True)
MakeOutDir ==
    /\ pc = "Loop"
    /\ LoaderExhausted(batch_idx, calib_loader)
    /\ out_dir_created' = TRUE
    /\ pc' = "Write"
    /\ UNCHANGED << args, failure, model_type, num_heads, calib_loader, batch_idx,
                    k_obs_list, v_obs_list, files, i >>
    /\ UNCHANGED chat_vars

\* ------------------------------------------------------------ finalizer
Frac(n, d) == [num |-> n, den |-> d]

\* str(n) of a non-negative int, one character per element
DigitChar(d) == << "0", "1", "2", "3", "4", "5", "6", "7", "8", "9" >>[d + 1]

RECURSIVE DecStr(_)
DecStr(n) ==
    IF n < 10 THEN << DigitChar(n) >>
    ELSE DecStr(n \div 10) \o << DigitChar(n % 10) >>

\* f'layers.{layer}.past_kv_scale.{tp}.weight'
SavePath(layer, tp) ==
    << "layers." >> \o DecStr(layer) \o << ".past_kv_scale." >>
                   \o DecStr(tp) \o << ".weight" >>

\* mutant: the layer is taken modulo num_tp
LayerOfModulo(idx, tp_count) == idx % tp_count

LayerOf(idx, tp_count) == idx \div tp_count

ShardOf(idx, tp_count) == idx % tp_count

\* mutant: the unsigned range 2**bits - 1 is used for the symmetric scale
SymDivisorUnsigned(b) == Pow2(b) - 1

SymDivisor(b) == Pow2(b - 1) - 1

AsymDivisor(b) == Pow2(b) - 1

\* max(obs.buffer) / (2**(bits - 1) - 1)
SymScale(buffer, b) == Frac(PyMax(buffer), SymDivisor(b))

\* min([min_k for min_k, _ in buffer]), max([max_k for _, max_k in buffer])
\* mutant: the minimum is taken over the recorded maxima
BufferMinOfMaxima(buffer) == PyMin([j \in 1..Len(buffer) |-> buffer[j][2]])

BufferMin(buffer) == PyMin([j \in 1..Len(buffer) |-> buffer[j][1]])

BufferMax(buffer) == PyMax([j \in 1..Len(buffer) |-> buffer[j][2]])

\* (k_max - k_min) / (2**bits - 1)
AsymScale(buffer, b) ==
    Frac(BufferMax(buffer) - BufferMin(buffer), AsymDivisor(b))

\* np.array([...], dtype=np.float32) as written to save_path
KVQParams(k_obs, v_obs, sym, b) ==
    IF sym
    THEN << SymScale(k_obs.buffer, b), SymScale(v_obs.buffer, b) >>
    ELSE << AsymScale(k_obs.buffer, b), BufferMin(k_obs.buffer),
            AsymScale(v_obs.buffer, b), BufferMin(v_obs.buffer) >>

ZipLen(k_list, v_list) ==
    IF Len(k_list) < Len(v_list) THEN Len(k_list) ELSE Len(v_list)

ToFile(fs, path, content) ==
    { f \in fs : f.path # path } \cup { [path |-> path, content |-> content] }

\* one iteration of `for i, (k_obs, v_obs) in enumerate(zip(...))`
WriteArtifact ==
    /\ pc = "Write"
    /\ i < ZipLen(k_obs_list, v_obs_list)
    /\ LET k_obs == k_obs_list[i + 1]
           v_obs == v_obs_list[i + 1]
           save_path == SavePath(LayerOf(i, num_tp), ShardOf(i, num_tp))
       IN  IF Len(k_obs.buffer) = 0 \/ Len(v_obs.buffer) = 0
           THEN /\ pc' = "Failed"
                /\ failure' = "ValueError"
                /\ UNCHANGED << files, i >>
           ELSE /\ files' = ToFile(files, save_path,
                                   KVQParams(k_obs, v_obs, symmetry, bits))
                /\ i' = i + 1
                /\ UNCHANGED << pc, failure >>
    /\ UNCHANGED << args, model_type, num_heads, calib_loader, batch_idx, k_obs_list,
                    v_obs_list, out_dir_created >>
    /\ UNCHANGED chat_vars

\* the finalization loop is exhausted: main returns
Finish ==
    /\ pc = "Write"
    /\ i >= ZipLen(k_obs_list, v_obs_list)
    /\ pc' = "Done"
    /\ UNCHANGED << args, failure, model_type, num_heads, calib_loader, batch_idx,
                    k_obs_list, v_obs_list, out_dir_created, files, i >>
    /\ UNCHANGED chat_vars

Next ==
    \/ Validate
    \/ Load
    \/ OffloadSetup
    \/ CalibrateBatch
    \/ MakeOutDir
    \/ WriteArtifact
    \/ Finish

Spec == Init /\ [][Next]_vars

\* ---------------------------------------------------------------- claims
SetMax(S) == CHOOSE m \in S : \A x \in S : x <= m

SetMin(S) == CHOOSE m \in S : \A x \in S : m <= x

ConfigSupported ==
    /\ bits = 8
    /\ granularity = "per_tensor"
    /\ calib_dataset \in {"c4", "ptb", "wikitext2", "pileval"}

\* the calibration loop has made batch_idx calls and none of them raised
CollectedOK == batch_idx >= 1 /\ failure = "none" /\ pc \in {"Loop", "Write", "Done"}

\* C1: after B >= 1 successful calls of stats_past_key_values on batches of
\* L layers each, with the same num_tp, there are exactly L * num_tp key
\* observers and L * num_tp value observers and every buffer has length B.
C1_PoolShape ==
    (CollectedOK /\ \A j \in 1..batch_idx :
                        Len(calib_loader[j]) = Len(calib_loader[1]))
    => /\ Len(k_obs_list) = Len(calib_loader[1]) * num_tp
       /\ Len(v_obs_list) = Len(calib_loader[1]) * num_tp
       /\ \A n \in 1..Len(k_obs_list) : Len(k_obs_list[n].buffer) = batch_idx
       /\ \A n \in 1..Len(v_obs_list) : Len(v_obs_list[n].buffer) = batch_idx

C1_Witness ==
    /\ CollectedOK
    /\ batch_idx = 2
    /\ num_tp = 2
    /\ Len(calib_loader[1]) = 2
    /\ Len(calib_loader[2]) = 2
    /\ Len(k_obs_list) = 4

\* C2: once the pool is initialised, a batch whose number of layers differs
\* from the initialising batch's makes the call fail with the consistency
\* assertion, and no observer list or buffer is changed by that call.
C2_LayerMismatchRejected ==
    [][ ( /\ pc = "Loop"
          /\ batch_idx >= 1
          /\ batch_idx < Len(calib_loader)
          /\ Len(k_obs_list) > 0
          /\ Len(calib_loader[batch_idx + 1]) # Len(calib_loader[1]) )
        => ( /\ pc' = "Failed"
             /\ failure' = "AssertionError"
             /\ k_obs_list' = k_obs_list
             /\ v_obs_list' = v_obs_list ) ]_vars

C2_Witness ==
    /\ pc = "Failed"
    /\ failure = "AssertionError"
    /\ batch_idx = 2
    /\ Len(calib_loader[2]) # Len(calib_loader[1])
    /\ Len(k_obs_list) = Len(calib_loader[1]) * num_tp
    /\ \A n \in 1..Len(k_obs_list) :
          Len(k_obs_list[n].buffer) = 1 /\ Len(v_obs_list[n].buffer) = 1

\* some layer of the batch has a head count that num_tp does not divide
Indivisible(past_key_values, tp_count) ==
    \E l \in 1..Len(past_key_values) :
        NumHeads(past_key_values[l][1]) % tp_count # 0

\* C3: a batch with a layer whose head count is not a multiple of num_tp is
\* rejected with an error (any exception is taken for the ConsistencyError)
\* instead of being sliced and observed.
C3_IndivisibleHeadsRejected ==
    ( /\ batch_idx >= 1
      /\ Indivisible(calib_loader[batch_idx], num_tp) )
    => pc = "Failed"

\* C4: when num_tp divides the head count H of a layer, the head ranges of
\* the shards 0..num_tp-1 are pairwise disjoint and their union is 0..H-1
\* (the same ranges slice the key cache and the value cache).
C4_ShardsPartitionHeads ==
    \A j \in 1..batch_idx : \A l \in 1..Len(calib_loader[j]) :
        LET heads == NumHeads(calib_loader[j][l][1])
            per_tp_heads == PerTpHeads(heads, num_tp)
            shard(S) == ShardHeads(S, per_tp_heads, heads)
        IN  heads % num_tp = 0
            => /\ \A S1, S2 \in 0..(num_tp - 1) :
                     S1 # S2 => shard(S1) \cap shard(S2) = {}
               /\ UNION { shard(S) : S \in 0..(num_tp - 1) } = 0..(heads - 1)
               /\ \A S \in 0..(num_tp - 1) :
                     /\ Len(ShardSlice(calib_loader[j][l][1], S, per_tp_heads))
                          = per_tp_heads
                     /\ Len(ShardSlice(calib_loader[j][l][2], S, per_tp_heads))
                          = per_tp_heads

C4_Witness ==
    /\ CollectedOK
    /\ num_tp = 2
    /\ NumHeads(calib_loader[batch_idx][1][1]) = 2
    /\ Len(k_obs_list[2].buffer) = batch_idx

\* the scales of an artifact's content, in either layout
Scales(content) ==
    IF Len(content) = 2 THEN { content[1], content[2] }
                        ELSE { content[1], content[3] }

\* C5: a degenerate range at finalization does not abort the run and every
\* scale written is strictly positive.
C5_ScalesStrictlyPositive ==
    /\ pc = "Failed" => i = 0
    /\ \A f \in files : \A sc \in Scales(f.content) : sc.num > 0 /\ sc.den > 0

\* the loop of the offload=False branch, run over the whole loader
RECURSIVE NoOffloadLoop(_, _, _, _, _, _)
NoOffloadLoop(loader, done, k_list, v_list, sym, tp_count) ==
    IF done >= Len(loader)
    THEN [k |-> k_list, v |-> v_list, calls |-> done, err |-> "none"]
    ELSE LET r == stats_past_key_values(loader[done + 1], k_list, v_list,
                                        sym, tp_count)
         IN  IF r.err # "none"
             THEN [k |-> r.k, v |-> r.v, calls |-> done + 1, err |-> r.err]
             ELSE NoOffloadLoop(loader, done + 1, r.k, r.v, sym, tp_count)

\* C6: with offload the statistics collection is called as without it: when
\* the batch loop is over, the number of calls and the observer buffers are
\* those of the offload=False run on the same loader, symmetry and num_tp.
C6_OffloadCollectsTheSame ==
    (ConfigSupported /\ pc \in {"Write", "Done", "Failed"})
    => LET r == NoOffloadLoop(calib_loader, 0, << >>, << >>, symmetry, num_tp)
       IN  /\ batch_idx = r.calls
           /\ k_obs_list = r.k
           /\ v_obs_list = r.v

\* C7: the output directory and the artifacts exist only once every batch
\* of the loader has been collected without error; no call of
\* stats_past_key_values follows an artifact write; a run that failed in the
\* batch loop has written nothing.
C7_FinalizeAfterAllBatches ==
    /\ [] ( /\ (out_dir_created \/ files # {} \/ pc \in {"Write", "Done"})
                => (batch_idx = Len(calib_loader) /\ failure = "none")
            /\ (pc = "Failed" /\ failure # "ValueError")
                => (files = {} /\ ~out_dir_created) )
    /\ [][ files # {} => batch_idx' = batch_idx ]_vars

C7_Witness ==
    /\ pc = "Done"
    /\ batch_idx = 2
    /\ Len(calib_loader) = 2
    /\ Cardinality(files) >= 2

\* C8: with bits other than 8, a granularity other than per_tensor or a
\* dataset outside {c4, ptb, wikitext2, pileval} the run fails on the opening
\* assertions: nothing is loaded, no batch is processed, no observer, output
\* directory or artifact is created.
C8_UnsupportedConfigRejected ==
    ~ConfigSupported
    => /\ pc \in {"Validate", "Failed"}
       /\ pc = "Failed" => failure = "AssertionError"
       /\ model_type = "unloaded"
       /\ num_heads = 0
       /\ calib_loader = << >>
       /\ batch_idx = 0
       /\ k_obs_list = << >>
       /\ v_obs_list = << >>
       /\ ~out_dir_created
       /\ files = {}

C8_Witness ==
    /\ pc = "Failed"
    /\ failure = "AssertionError"
    /\ bits = 4
    /\ granularity = "per_tensor"
    /\ calib_dataset = "c4"
    /\ model_type = "unloaded"

\* the artifact written for pool index n (0-based)
FileOf(n) ==
    { f \in files : f.path = SavePath(n \div num_tp, n % num_tp) }

\* fraction sc equals a / b
FracEq(sc, a, b) == sc.den > 0 /\ sc.num * b = a * sc.den

\* C9: in symmetric mode with bits = 8 the artifact of every finalized pool
\* index holds k_scale = (largest entry of the key buffer) / 127 and
\* v_scale = (largest entry of the value buffer) / 127, whatever the order
\* of the entries.
C9_SymmetricScale ==
    (symmetry /\ bits = 8)
    => \A n \in 0..(i - 1) :
          /\ FileOf(n) # {}
          /\ \A f \in FileOf(n) :
                /\ Len(f.content) = 2
                /\ FracEq(f.content[1],
                          SetMax(Range(k_obs_list[n + 1].buffer)), 127)
                /\ FracEq(f.content[2],
                          SetMax(Range(v_obs_list[n + 1].buffer)), 127)

C9_Witness ==
    /\ symmetry
    /\ pc = "Done"
    /\ i = 1
    /\ k_obs_list[1].buffer = << 5, 4 >>
    /\ \E f \in files : f.content[1] = Frac(5, 127)

\* C10: in asymmetric mode with bits = 8 the artifact of every finalized
\* pool index holds k_scale = (k_max - k_min) / 255 and k_zero_point = k_min
\* with k_min the least recorded minimum and k_max the greatest recorded
\* maximum of the key buffer, and the same for the value buffer.
C10_AsymmetricParams ==
    (~symmetry /\ bits = 8)
    => \A n \in 0..(i - 1) :
          /\ FileOf(n) # {}
          /\ \A f \in FileOf(n) :
                LET kb == k_obs_list[n + 1].buffer
                    vb == v_obs_list[n + 1].buffer
                    k_min == SetMin({ kb[j][1] : j \in 1..Len(kb) })
                    k_max == SetMax({ kb[j][2] : j \in 1..Len(kb) })
                    v_min == SetMin({ vb[j][1] : j \in 1..Len(vb) })
                    v_max == SetMax({ vb[j][2] : j \in 1..Len(vb) })
                IN  /\ Len(f.content) = 4
                    /\ FracEq(f.content[1], k_max - k_min, 255)
                    /\ f.content[2] = k_min
                    /\ FracEq(f.content[3], v_max - v_min, 255)
                    /\ f.content[4] = v_min

C10_Witness ==
    /\ ~symmetry
    /\ pc = "Done"
    /\ i = 1
    /\ k_obs_list[1].buffer = << << -2, 4 >>, << -5, 3 >> >>
    /\ \E f \in files :
          /\ f.path = SavePath(0, 0)
          /\ f.content[1] = Frac(9, 255)
          /\ f.content[2] = -5

\* the file named 'layers.<layer>.past_kv_scale.<shard>.weight'
Artifact(layer, shard) == { f \in files : f.path = SavePath(layer, shard) }

\* the layers of the batch that created the pool, 0 without a batch
PoolLayers == IF batch_idx >= 1 THEN Len(calib_loader[1]) ELSE 0

\* content is [k_scale, v_scale] resp. [k_scale, k_min, v_scale, v_min] of
\* the observer pair n (1-based), in that order
ContentOf(content, n) ==
    LET kb == k_obs_list[n].buffer
        vb == v_obs_list[n].buffer
    IN  IF symmetry
        THEN /\ Len(content) = 2
             /\ FracEq(content[1], SetMax(Range(kb)), 127)
             /\ FracEq(content[2], SetMax(Range(vb)), 127)
        ELSE LET k_min == SetMin({ kb[j][1] : j \in 1..Len(kb) })
                 k_max == SetMax({ kb[j][2] : j \in 1..Len(kb) })
                 v_min == SetMin({ vb[j][1] : j \in 1..Len(vb) })
                 v_max == SetMax({ vb[j][2] : j \in 1..Len(vb) })
             IN  /\ Len(content) = 4
                 /\ FracEq(content[1], k_max - k_min, 255)
                 /\ content[2] = k_min
                 /\ FracEq(content[3], v_max - v_min, 255)
                 /\ content[4] = v_min

\* C11: finalization over a pool of L * num_tp observer pairs writes one
\* artifact per (layer, shard) with layer = i // num_tp in [0, L) and
\* shard = i % num_tp in [0, num_tp): every write creates a new file name,
\* at the end every pair has its file, and the content is
\* [k_scale, v_scale] (symmetric) or [k_scale, k_zero_point, v_scale,
\* v_zero_point] (asymmetric) of that pair, in that order.
C11_OneArtifactPerShard ==
    pc \in {"Write", "Done"}
    => /\ Cardinality(files) = i
       /\ \A n \in 0..(i - 1) :
             /\ n \div num_tp \in 0..(PoolLayers - 1)
             /\ n % num_tp \in 0..(num_tp - 1)
             /\ Cardinality(Artifact(n \div num_tp, n % num_tp)) = 1
             /\ \A f \in Artifact(n \div num_tp, n % num_tp) :
                   ContentOf(f.content, n + 1)
       /\ pc = "Done"
          => /\ i = PoolLayers * num_tp
             /\ \A l \in 0..(PoolLayers - 1) : \A sh \in 0..(num_tp - 1) :
                   Cardinality(Artifact(l, sh)) = 1

C11_Witness ==
    /\ pc = "Done"
    /\ ~symmetry
    /\ num_tp = 2
    /\ PoolLayers = 2
    /\ Cardinality(files) = 4
    /\ Artifact(1, 1) # {}

IsPrefix(a, b) == Len(a) <= Len(b) /\ \A j \in 1..Len(a) : a[j] = b[j]

\* every observer of the list before a step is still there after it, with a
\* buffer that extends the old one
OnlyGrows(before, after) ==
    /\ Len(before) <= Len(after)
    /\ \A n \in 1..Len(before) : IsPrefix(before[n].buffer, after[n].buffer)

\* C12: across the calls of stats_past_key_values every observer's buffer
\* only grows by appending: the buffer before a step is a prefix of the
\* buffer after it; no buffer is reset, truncated or replaced.
C12_BuffersOnlyGrow ==
    [][ /\ OnlyGrows(k_obs_list, k_obs_list')
        /\ OnlyGrows(v_obs_list, v_obs_list') ]_vars

C12_Witness ==
    /\ CollectedOK
    /\ batch_idx = 2
    /\ Len(k_obs_list) >= 1
    /\ Len(k_obs_list[1].buffer) = 2
    /\ Len(v_obs_list[1].buffer) = 2
    /\ k_obs_list[1].buffer[1] # k_obs_list[1].buffer[2]

\* ---------------------------------------- consumer's quantize / dequantize
\* the integers nearest to n / d for d > 0 (both neighbours on a tie)
RoundCandidates(n, d) ==
    { q \in { n \div d, n \div d + 1 } : Abs(2 * (q * d - n)) <= d }

\* quantized = round((value - zero_point) / scale) for value = v2 / 2; no
\* finite result when the scale is zero
Quantize(v2, scale, zero_point) ==
    IF scale.num = 0
    THEN [finite |-> FALSE, q |-> {}]
    ELSE [finite |-> TRUE,
          q |-> RoundCandidates((v2 - 2 * zero_point) * scale.den,
                                2 * scale.num)]

\* value ~ quantized * scale + zero_point
Dequantize(q, scale, zero_point) ==
    Frac(q * scale.num + zero_point * scale.den, scale.den)

\* |dequantize(quantize(v2 / 2)) - v2 / 2| <= scale / 2
RoundTripOK(v2, scale, zero_point) ==
    LET r == Quantize(v2, scale, zero_point)
    IN  /\ r.finite
        /\ \A q \in r.q :
              LET d == Dequantize(q, scale, zero_point)
              IN  Abs(2 * d.num - v2 * d.den) <= scale.num

\* twice the values of the observed range of a buffer (halves included)
ObservedRange2(buffer) ==
    IF symmetry
    THEN (-2 * SetMax(Range(buffer)))..(2 * SetMax(Range(buffer)))
    ELSE (2 * SetMin({ buffer[j][1] : j \in 1..Len(buffer) }))
           ..(2 * SetMax({ buffer[j][2] : j \in 1..Len(buffer) }))

\* C13: with the scale (and zero-point) written by finalization, every value
\* v of the observed range survives quantize-then-dequantize with an error
\* of at most scale / 2.
C13_RoundTripWithinHalfScale ==
    \A n \in 0..(i - 1) : \A f \in FileOf(n) :
        LET k_scale == f.content[1]
            v_scale == IF symmetry THEN f.content[2] ELSE f.content[3]
            k_zero == IF symmetry THEN 0 ELSE f.content[2]
            v_zero == IF symmetry THEN 0 ELSE f.content[4]
        IN  /\ \A v2 \in ObservedRange2(k_obs_list[n + 1].buffer) :
                  RoundTripOK(v2, k_scale, k_zero)
            /\ \A v2 \in ObservedRange2(v_obs_list[n + 1].buffer) :
                  RoundTripOK(v2, v_scale, v_zero)

\* the observers of a list are the same objects after a step
SameObservers(before, after) ==
    /\ Len(after) = Len(before)
    /\ \A n \in 1..Len(before) :
          after[n].fn = before[n].fn /\ after[n].enabled = before[n].enabled

\* C14: both observer lists always have the same length; the pool is
\* populated by the first batch's call with num_layers * num_tp observers
\* and no later call, successful or failing, adds, removes or recreates one.
C14_PoolFixedOncePopulated ==
    /\ [] ( /\ Len(k_obs_list) = Len(v_obs_list)
            /\ Len(k_obs_list) > 0 <=> batch_idx >= 1
            /\ batch_idx >= 1
                => Len(k_obs_list) = Len(calib_loader[1]) * num_tp )
    /\ [][ Len(k_obs_list) > 0
           => /\ SameObservers(k_obs_list, k_obs_list')
              /\ SameObservers(v_obs_list, v_obs_list') ]_vars

C14_Witness ==
    /\ pc = "Failed"
    /\ failure = "AssertionError"
    /\ batch_idx = 2
    /\ num_tp = 2
    /\ Len(calib_loader[1]) = 1
    /\ Len(calib_loader[2]) = 2
    /\ Len(k_obs_list) = 2
    /\ Len(v_obs_list) = 2

\* the reduction of the heads [S * (H div T), (S + 1) * (H div T)) of a cache
ShardReduction(cache, S) ==
    LET per == Len(cache) \div num_tp
        vals == { cache[h + 1] : h \in { g \in 0..(Len(cache) - 1) :
                                           S * per <= g /\ g < (S + 1) * per } }
    IN  IF symmetry THEN SetMax({ Abs(x) : x \in vals })
                    ELSE << SetMin(vals), SetMax(vals) >>

\* C15: for every collected batch j, layer L and shard S the j-th entry of
\* k_observers[L * num_tp + S] is the reduction of batch j's key cache of
\* layer L over shard S's heads and the j-th entry of the value observer at
\* the same index is that of the value cache; nothing of another layer,
\* shard or of the other cache is recorded there.
C15_StatisticsAttributed ==
    CollectedOK
    => \A j \in 1..batch_idx : \A L \in 0..(Len(calib_loader[j]) - 1) :
          \A S \in 0..(num_tp - 1) :
             /\ k_obs_list[L * num_tp + S + 1].buffer[j]
                  = ShardReduction(calib_loader[j][L + 1][1], S)
             /\ v_obs_list[L * num_tp + S + 1].buffer[j]
                  = ShardReduction(calib_loader[j][L + 1][2], S)

C15_Witness ==
    /\ CollectedOK
    /\ batch_idx = 2
    /\ num_tp = 2
    /\ num_heads = 2
    /\ Len(calib_loader[1]) = 2
    /\ k_obs_list[2].buffer # k_obs_list[3].buffer
    /\ k_obs_list[1].buffer # v_obs_list[1].buffer
    /\ k_obs_list[1].buffer[1] # k_obs_list[1].buffer[2]

\* C16: whenever finalization handles an observer pair both buffers are
\* non-empty, so max / min is never taken over an empty buffer: an observer
\* that exists after a successful call has an observation of that call; a
\* run over zero batches finalizes zero observers and writes no artifact.
C16_BuffersNonEmptyAtFinalization ==
    /\ failure # "ValueError"
    /\ (failure = "none" /\ pc \in {"Loop", "Write", "Done"})
       => \A n \in 1..Len(k_obs_list) :
             /\ Len(k_obs_list[n].buffer) >= 1
             /\ Len(v_obs_list[n].buffer) >= 1
    /\ (pc \in {"Write", "Done"} /\ Len(calib_loader) = 0)
       => /\ k_obs_list = << >>
          /\ v_obs_list = << >>
          /\ i = 0
          /\ files = {}

C16_Witness ==
    /\ pc = "Write"
    /\ i = 1
    /\ Len(k_obs_list) = 2
    /\ Len(k_obs_list[2].buffer) = 1
    /\ Len(v_obs_list[2].buffer) = 1
    /\ Cardinality(files) = 1

\* ------------------------------------------------- turbomind/chat.py main
Seeds == {0, 1}

\* len(input_ids) of an encoded prompt
PromptLens == 1..MaxPromptLen

\* the token counts of the outputs one stream_infer call yields, the last
\* one being the number of tokens generated by the call
Streams == UNION { [1..n -> 0..MaxGenTokens] : n \in 1..2 }

\* the calibration tool is not running
CalibIdle ==
    /\ bits = 8
    /\ granularity = "per_tensor"
    /\ calib_dataset = "c4"
    /\ symmetry = TRUE
    /\ offload = FALSE
    /\ num_tp = 1
    /\ pc = "Idle"
    /\ failure = "none"
    /\ model_type = "unloaded"
    /\ num_heads = 0
    /\ calib_loader = << >>
    /\ batch_idx = 0
    /\ k_obs_list = << >>
    /\ v_obs_list = << >>
    /\ out_dir_created = FALSE
    /\ files = {}
    /\ i = 0

\* nth_round = 1; step = 0; seed = random.getrandbits(64)
ChatInit ==
    /\ CalibIdle
    /\ chat_pc = "Prompt"
    /\ nth_round = 1
    /\ step = 0
    /\ seed \in Seeds
    /\ requests = << >>

\* mutant: every generation request opens a sequence
SequenceStartAlways(round) == TRUE

\* sequence_start=(nth_round == 1)
SequenceStart(round) == round = 1

\* mutant: the prompt length is left out of the step
StepAfterRoundNoPrompt(st, input_len, toks) == st + toks

\* step += len(input_ids) + tokens
StepAfterRound(st, input_len, toks) == st + input_len + toks

\* `res, tokens = outputs[0]` in the loop body: the last output's count stays
LastTokens(stream) == stream[Len(stream)]

\* prompt == 'exit'
ChatExit ==
    /\ chat_pc = "Prompt"
    /\ chat_pc' = "Exited"
    /\ UNCHANGED << nth_round, step, seed, requests, calib_vars >>

\* prompt == 'end': close the sequence, then reset round, step and seed
ChatEnd ==
    /\ chat_pc = "Prompt"
    /\ Len(requests) < MaxRequests
    /\ \E n \in PromptLens :
          requests' = Append(requests,
                             [kind |-> "end", input_len |-> n,
                              sequence_start |-> FALSE,
                              sequence_end |-> TRUE])
    /\ nth_round' = 1
    /\ step' = 0
    /\ \E sd \in Seeds : seed' = sd
    /\ UNCHANGED << chat_pc, calib_vars >>

\* any other prompt: one generation round
ChatGenerate ==
    /\ chat_pc = "Prompt"
    /\ Len(requests) < MaxRequests
    /\ \E n \in PromptLens : \E stream \in Streams :
          /\ requests' = Append(requests,
                                [kind |-> "generate", input_len |-> n,
                                 sequence_start |-> SequenceStart(nth_round),
                                 sequence_end |-> FALSE,
                                 step |-> step,
                                 random_seed |-> IF nth_round = 1
                                                 THEN << seed >> ELSE << >>,
                                 generated |-> stream[Len(stream)]])
          /\ step' = StepAfterRound(step, n, LastTokens(stream))
    /\ nth_round' = nth_round + 1
    /\ UNCHANGED << chat_pc, seed, calib_vars >>

ChatNext ==
    \/ ChatExit
    \/ ChatEnd
    \/ ChatGenerate

SpecChat == ChatInit /\ [][ChatNext]_vars

\* prompt plus generated tokens of the generation rounds after the last 'end'
RECURSIVE TokensSinceReset(_, _)
TokensSinceReset(log, j) ==
    IF j = 0 \/ log[j].kind = "end" THEN 0
    ELSE log[j].input_len + log[j].generated + TokensSinceReset(log, j - 1)

\* C17: a generation request has sequence_start=True exactly when it is the
\* first request of the program or the first after an 'end'; generation
\* requests never have sequence_end=True; 'end' sends one request with
\* sequence_start=False and sequence_end=True and leaves nth_round = 1 and
\* step = 0.
C17_SequenceFlags ==
    /\ [] ( /\ \A j \in 1..Len(requests) :
                  IF requests[j].kind = "generate"
                  THEN /\ requests[j].sequence_start
                          <=> (j = 1 \/ requests[j - 1].kind = "end")
                       /\ ~requests[j].sequence_end
                  ELSE /\ ~requests[j].sequence_start
                       /\ requests[j].sequence_end
            /\ (Len(requests) > 0 /\ requests[Len(requests)].kind = "end")
                => (nth_round = 1 /\ step = 0) )
    /\ [][ /\ Len(requests') <= Len(requests) + 1
           /\ \A j \in 1..Len(requests) : requests'[j] = requests[j] ]_vars

C17_Witness ==
    /\ Len(requests) = 4
    /\ requests[1].kind = "generate" /\ requests[1].sequence_start
    /\ requests[2].kind = "generate" /\ ~requests[2].sequence_start
    /\ requests[3].kind = "end" /\ requests[3].sequence_end
    /\ requests[4].kind = "generate" /\ requests[4].sequence_start

====
